---- MODULE Spec2Model ----
(***************************************************************************)
(* Model of migrant's migration resolution and application engine          *)
(* (migrant_lib/src/lib.rs): discovery of the migration directories, the   *)
(* resolution of the next unit against the applied list, and the           *)
(* execute -> record -> reload steps of apply_migration, for one invoker.  *)
(***************************************************************************)
EXTENDS Naturals, Sequences, FiniteSets, TLC

\* ---------------------------------------------------------------- bounds
MaxStamp == 3
MaxUnits == 3
\* rows of the table read by Config::reload, and units in a registered list
MaxRows == 2
\* rows already in the table when the migration directories are edited by hand
MaxLedger == 1
\* migration directories of a hand-edited source
MaxDrift == 2
MaxList == 2

Stamps == 1..MaxStamp
\* a tag is the directory name <stamp>_<name>; one pair of directories shares a stamp
Tags == (Stamps \X {"a"}) \cup {<<1, "b">>}
Sources == {S \in SUBSET Tags : Cardinality(S) <= MaxUnits}
Directions == {"Up", "Down"}
Drivers == {"native", "cli"}

VARIABLES
    mig_dir,        \* the migration directories found under migration_location
    driver,         \* the build: native database driver, or the command-line fallback
    table_exists,   \* the __migrant_migrations table exists
    db,             \* rows of __migrant_migrations, in insertion order
    effects,        \* tags whose up script has taken effect and was not reverted
    pc,             \* position of the invoker: idle, resolve, execute, record, reload, done
    applied,        \* Config.applied of the Config the current frame holds
    direction, force, fake, all,   \* the Migrator's settings
    depth,          \* number of enclosing apply_migration frames
    next,           \* the unit resolved by the current frame
    ran,            \* outcome of the execute step of the current frame
    result,         \* what Migrator::apply returned
    failed_at,      \* the call whose error ended the invocation
    start,          \* the applied list the invocation started from
    execLog,        \* runner calls of the invocation: <<direction, tag, ok>>
    recLog,         \* ledger mutations of the invocation: <<direction, tag>>
    prev,           \* summary of the previously returned invocation
    clean,          \* the ledger agreed with the effects when the invocation started
    files,          \* the sql files of each migration directory: up, down or both
    cfg,            \* a Config value (config.rs): settings_path, applied, migrations
    saved,          \* the tags stored in __migrant_migrations that Config::reload reads
    c_op,           \* the last operation called on cfg, with its argument in c_arg
    c_arg,
    c_result,       \* what that operation returned
    c_prev,         \* cfg before that operation
    registered,     \* the list of the last successful use_migrations in cfg's lineage
    listing,        \* the lines the last `list` printed: <<tag, applied>>
    gw_op,          \* the last driver function called directly (drivers/sqlite.rs, pg.rs)
    gw_arg,         \* its tag argument
    gw_ret,         \* what it returned
    gw_live         \* the tags whose insert returned Ok and no later remove returned Ok

engvars == <<mig_dir, files, driver, table_exists, db, effects, pc, applied, direction, force,
             fake, all, depth, next, ran, result, failed_at, start, execLog, recLog, prev,
             clean>>

cfgvars == <<cfg, saved, c_op, c_arg, c_result, c_prev, registered>>

gwvars == <<gw_op, gw_arg, gw_ret, gw_live>>

vars == <<engvars, cfgvars, listing, gwvars>>

None == <<>>

\* ------------------------------------------------------- pure functions
\* the timestamp a tag starts with: tag.split('_').next() parsed with DT_FORMAT
Stamp(tag) == tag[1]

Contains(s, x) == \E i \in 1..Len(s) : s[i] = x

Range(s) == {s[i] : i \in 1..Len(s)}

Min(S) == CHOOSE x \in S : \A y \in S : x <= y

RECURSIVE Reverse(_)
Reverse(s) == IF s = <<>> THEN <<>> ELSE Append(Reverse(Tail(s)), Head(s))

\* every ordering of a finite set: the iteration orders of a HashMap
Orders(S) ==
    {s \in [1..Cardinality(S) -> S] : \A i, j \in 1..Cardinality(S) : i # j => s[i] # s[j]}

\* x placed after every element whose stamp is not greater (a stable insertion)
RECURSIVE InsertByStamp(_, _)
InsertByStamp(x, s) ==
    IF s = <<>> THEN <<x>>
    ELSE IF Stamp(Head(s)) <= Stamp(x) THEN <<Head(s)>> \o InsertByStamp(x, Tail(s))
    ELSE <<x>> \o s

\* sort_by(|a, b| a.stamp.cmp(&b.stamp)): stable, ascending by stamp
RECURSIVE sort_by_stamp(_)
sort_by_stamp(s) ==
    IF s = <<>> THEN <<>>
    ELSE InsertByStamp(s[Len(s)], sort_by_stamp(SubSeq(s, 1, Len(s) - 1)))

\* mutant: the directories left in the order the HashMap yields them
search_unsorted(order) == order

\* the directories in the order the HashMap yields them, then sorted by stamp
search_for_migrations(order) == sort_by_stamp(order)

\* mutant: the rows are taken in the order of the query
load_applied_unsorted(rows) == rows

\* select tag from __migrant_migrations, then sorted by stamp
load_applied(rows) == sort_by_stamp(rows)

\* mutant: the applied list of the old Config is kept
reload_skipped(cur, rows) == cur

\* Config::reload: a new Config loaded from the settings file and the table
reload(cur, rows) == load_applied(rows)

\* the name of the migration_location directory itself: not <stamp>_<name>
RootTag == <<0, "migrations">>

\* datetime_from_str(tag.split('_').next(), DT_FORMAT) returns Ok
StampParses(tag) == Stamp(tag) \in Stamps

\* Migration.dir = up.parent(): `up` stays the directory's own path when the directory
\* has no up.sql, and its parent is then migration_location
MigrationDir(d, fs) == IF "up" \in fs[d] THEN d ELSE RootTag

\* the tags next_available and list derive from the discovered Migrations
MigrationDirs(available, fs) == [i \in 1..Len(available) |-> MigrationDir(available[i], fs)]

\* the script file next_available returned exists
HasScript(dir, tag, fs) ==
    tag \in DOMAIN fs /\ (IF dir = "Up" THEN "up" ELSE "down") \in fs[tag]

\* mutant: Down takes the first applied tag instead of the last
next_available_first(dir, available, app) ==
    IF dir = "Up"
    THEN LET missing == {i \in 1..Len(available) : ~Contains(app, available[i])}
         IN  IF missing = {} THEN None ELSE available[Min(missing)]
    ELSE IF app = <<>> THEN None ELSE app[1]

\* mutant: Up takes the first directory whether or not its tag is applied
next_available_any(dir, available, app) ==
    IF dir = "Up"
    THEN IF available = <<>> THEN None ELSE available[1]
    ELSE IF app = <<>> THEN None ELSE app[Len(app)]

\* mutant: Up takes the last directory whose tag is not applied
next_available_last(dir, available, app) ==
    IF dir = "Up"
    THEN LET missing == {i \in 1..Len(available) : ~Contains(app, available[i])}
         IN  IF missing = {} THEN None
             ELSE available[CHOOSE i \in missing : \A j \in missing : j <= i]
    ELSE IF app = <<>> THEN None ELSE app[Len(app)]

\* the next unit in the direction, None when there is none
next_available(dir, available, app) ==
    IF dir = "Up"
    THEN LET missing == {i \in 1..Len(available) : ~Contains(app, available[i])}
         IN  IF missing = {} THEN None ELSE available[Min(missing)]
    ELSE IF app = <<>> THEN None ELSE app[Len(app)]

\* runner: whether run_sqlite / run_postgres returns Ok.  The native driver returns the
\* error of opening the connection or of executing the script; the command-line
\* fallback returns Ok whenever the process was spawned, whatever the script did.
runner(drv, started, script_ok) ==
    IF drv = "native" THEN started /\ script_ok ELSE started

\* mutant: a runner error always ends the step
RunOutcomeNoForce(ok, forced) == IF ok THEN "ok" ELSE "bail"

\* mutant: a runner error never ends the step
RunOutcomeNoBail(ok, forced) == IF ok THEN "ok" ELSE "forced"

\* what a frame does with the runner's result
RunOutcome(ok, forced) ==
    IF ok THEN "ok" ELSE IF forced THEN "forced" ELSE "bail"

\* mutant: MigrationComplete is not swallowed by the enclosing frames
CompleteNotSwallowed(d) == "MigrationComplete"

\* mutant: finding no unit counts as success
CompleteAsOk(d) == "Ok"

\* what the outermost caller receives when a frame at depth d finds no unit:
\* the enclosing frames of an `all` run swallow MigrationComplete
CompleteResult(d) == IF d = 0 THEN "MigrationComplete" ELSE "Ok"

\* mutant: the delete has no where clause
DeleteAllRows(rows, tag) == <<>>

\* mutant: the table is created without the unique constraint
unique_unchecked(rows, tag) == FALSE

\* create table __migrant_migrations(tag text unique): an insert of a tag that is
\* already a row violates the constraint
unique_violation(rows, tag) == Contains(rows, tag)

\* insert into __migrant_migrations (tag): the column is unique
InsertRows(rows, tag) == Append(rows, tag)

\* mutant: the delete matches no row
DeleteNoRows(rows, tag) == rows

\* delete from __migrant_migrations where tag = ...
DeleteRows(rows, tag) == SelectSeq(rows, LAMBDA t : t # tag)

\* what is remembered of an invocation once the next one starts: the record steps of
\* an apply-all Up that started from an empty ledger and returned Ok, that a
\* single-step Up found nothing left to apply, or the record step and the force flag
\* of a single-step Down without --fake that returned Ok (the first half of `redo`)
NoRun == [kind |-> "other", recLog |-> <<>>, force |-> FALSE]

Summary ==
    IF direction = "Up" /\ all /\ start = <<>> /\ result = "Ok"
    THEN [kind |-> "up_all_ok", recLog |-> recLog, force |-> FALSE]
    ELSE IF direction = "Up" /\ ~all /\ result = "MigrationComplete"
    THEN [kind |-> "up_complete", recLog |-> <<>>, force |-> FALSE]
    ELSE IF direction = "Down" /\ ~all /\ ~fake /\ result = "Ok"
    THEN [kind |-> "down_one_ok", recLog |-> recLog, force |-> force]
    ELSE NoRun

\* ------------------------------------------------ Config (config.rs): tags
\* [0-9]{14}: the length of a generated tag's timestamp
StampLen == 14

Digits == {"0", "1", "2", "3", "4", "5", "6", "7", "8", "9"}
Lower == {"a", "b", "c", "d", "e", "f", "g", "h", "i", "j", "k", "l", "m",
          "n", "o", "p", "q", "r", "s", "t", "u", "v", "w", "x", "y", "z"}
\* [a-z0-9-]
NameChars == Lower \cup Digits \cup {"-"}

DigitVal(c) ==
    CASE c = "0" -> 0 [] c = "1" -> 1 [] c = "2" -> 2 [] c = "3" -> 3 [] c = "4" -> 4
      [] c = "5" -> 5 [] c = "6" -> 6 [] c = "7" -> 7 [] c = "8" -> 8 [] c = "9" -> 9

\* tags are sequences of characters
T_initial == <<"2","0","1","7","0","8","1","2","1","4","5","3","2","7","_","a">>
T_second == <<"2","0","1","7","1","1","2","6","1","9","4","0","4","2","_","b">>
T_badmonth == <<"2","0","1","7","1","3","2","6","1","9","4","0","4","2","_","a">>
T_short == <<"2","0","1","7","0","8","1","2","1","4","5","3","2","_","a">>
T_name == <<"a">>
T_name2 == <<"b","-","1">>
T_upper == <<"A">>

\* what the table may hold, and what an embedding program may register
SavedTags == {T_initial, T_second, T_badmonth, T_short, T_name, T_name2, T_upper}
RegTags == {T_name, T_name2}

\* TAG_RE = [^a-z0-9-]+ : is_match finds a character outside the class anywhere
invalid_tag(tag) == \E i \in 1..Len(tag) : tag[i] \notin NameChars

\* FULL_TAG_RE: <14 digits>_<name of [a-z0-9-]>
full_tag_match(tag) ==
    /\ Len(tag) >= StampLen + 2
    /\ \A i \in 1..StampLen : tag[i] \in Digits
    /\ tag[StampLen + 1] = "_"
    /\ \A i \in (StampLen + 2)..Len(tag) : tag[i] \in NameChars

\* tag.split('_').next(): the part before the first underscore
StampPart(tag) ==
    LET us == {i \in 1..Len(tag) : tag[i] = "_"}
    IN  IF us = {} THEN tag ELSE SubSeq(tag, 1, Min(us) - 1)

TwoDigits(s, i) == 10 * DigitVal(s[i]) + DigitVal(s[i + 1])

\* chrono datetime_from_str(stamp, "%Y%m%d%H%M%S") returns Ok
ParsesAsDate(s) ==
    /\ Len(s) = StampLen
    /\ \A i \in 1..Len(s) : s[i] \in Digits
    /\ TwoDigits(s, 5) \in 1..12
    /\ TwoDigits(s, 7) \in 1..31
    /\ TwoDigits(s, 9) \in 0..23
    /\ TwoDigits(s, 11) \in 0..59
    /\ TwoDigits(s, 13) \in 0..60

\* a.0.cmp(&b.0) <= Equal on two parsed timestamps
RECURSIVE DateLeq(_, _)
DateLeq(a, b) ==
    IF a = <<>> THEN TRUE
    ELSE IF DigitVal(Head(a)) # DigitVal(Head(b)) THEN DigitVal(Head(a)) < DigitVal(Head(b))
    ELSE DateLeq(Tail(a), Tail(b))

RECURSIVE InsertByDate(_, _)
InsertByDate(x, s) ==
    IF s = <<>> THEN <<x>>
    ELSE IF DateLeq(StampPart(Head(s)), StampPart(x))
         THEN <<Head(s)>> \o InsertByDate(x, Tail(s))
         ELSE <<x>> \o s

\* mutant: the tags are returned in the order of the query
sort_by_date_unsorted(s) == s

\* stamped.sort_by(|a, b| a.0.cmp(&b.0)): stable
RECURSIVE sort_by_date(_)
sort_by_date(s) ==
    IF s = <<>> THEN <<>> ELSE InsertByDate(s[Len(s)], sort_by_date(SubSeq(s, 1, Len(s) - 1)))

\* ------------------------------------------- Config (config.rs): operations
NoList == [some |-> FALSE, list |-> <<>>]
Some(migs) == [some |-> TRUE, list |-> migs]

\* Config::from_settings_file / Config::with_settings
NewConfig(has_path) == [settings_path |-> has_path, applied |-> <<>>, migrations |-> NoList]

\* mutant: the list is stored before the tags are compared
use_migrations_unchecked(c, migs) ==
    [result |-> IF \E i, j \in 1..Len(migs) : i < j /\ migs[i] = migs[j] THEN "TagError" ELSE "Ok",
     cfg |-> [c EXCEPT !.migrations = Some(migs)]]

\* Config::use_migrations
use_migrations(c, migs) ==
    IF \E i, j \in 1..Len(migs) : i < j /\ migs[i] = migs[j]
    THEN [result |-> "TagError", cfg |-> c]
    ELSE [result |-> "Ok", cfg |-> [c EXCEPT !.migrations = Some(migs)]]

\* Config::is_explicit
is_explicit(c) == c.migrations.some

\* mutant: every stored tag is accepted
check_saved_tag_lenient(c, tag) == TRUE

\* Config::check_saved_tag returns Ok
check_saved_tag(c, tag) ==
    IF is_explicit(c) THEN ~invalid_tag(tag) ELSE full_tag_match(tag)

\* Config::load_applied; gw: the gateway's queries succeed
Config_load_applied(c, tbl, rows, gw) ==
    IF ~gw THEN [result |-> "Gateway", applied |-> <<>>]
    ELSE IF ~tbl THEN [result |-> "Migration", applied |-> <<>>]
    ELSE IF \E i \in 1..Len(rows) : ~check_saved_tag(c, rows[i])
    THEN [result |-> "Migration", applied |-> <<>>]
    ELSE IF is_explicit(c) THEN [result |-> "Ok", applied |-> rows]
    ELSE IF \E i \in 1..Len(rows) : ~ParsesAsDate(StampPart(rows[i]))
    THEN [result |-> "Chrono", applied |-> <<>>]
    ELSE [result |-> "Ok", applied |-> sort_by_date(rows)]

\* mutant: the registered list is not carried over to the new Config
Config_reload_fresh(c, tbl, rows, gw) ==
    LET config == IF c.settings_path THEN NewConfig(TRUE) ELSE c
        la == Config_load_applied(config, tbl, rows, gw)
    IN  IF la.result = "Ok"
        THEN [result |-> "Ok", cfg |-> [config EXCEPT !.applied = la.applied]]
        ELSE [result |-> la.result, cfg |-> c]

\* Config::reload: the new Config on Ok, no Config on Err
Config_reload(c, tbl, rows, gw) ==
    LET base == IF c.settings_path THEN NewConfig(TRUE) ELSE c
        config == [base EXCEPT !.migrations = c.migrations]
        la == Config_load_applied(config, tbl, rows, gw)
    IN  IF la.result = "Ok"
        THEN [result |-> "Ok", cfg |-> [config EXCEPT !.applied = la.applied]]
        ELSE [result |-> la.result, cfg |-> c]

\* ------------------------------------------------------------------ Init
\* ------------------------------------- drivers (sqlite.rs, pg.rs): the table
\* a Result of a driver function: Err, or Ok with a bool or with the selected rows
NoRet == [kind |-> "none", flag |-> FALSE, rows |-> <<>>]
Err == [kind |-> "Err", flag |-> FALSE, rows |-> <<>>]
OkUnit == [kind |-> "Ok", flag |-> FALSE, rows |-> <<>>]
OkBool(b) == [kind |-> "Ok", flag |-> b, rows |-> <<>>]
OkRows(rows) == [kind |-> "Ok", flag |-> FALSE, rows |-> rows]

\* migration_table_exists: select exists(... name = '__migrant_migrations')
migration_table_exists(tbl, gw) == IF gw THEN OkBool(tbl) ELSE Err

\* mutant: the table is created again whether or not it exists
migration_setup_recreate(tbl, rows, gw, gw_create) ==
    IF ~gw THEN [ret |-> Err, tbl |-> tbl, rows |-> rows]
    ELSE IF gw_create THEN [ret |-> OkBool(TRUE), tbl |-> TRUE, rows |-> <<>>]
    ELSE [ret |-> Err, tbl |-> tbl, rows |-> rows]

\* migration_setup: create the table when migration_table_exists says it is missing
migration_setup(tbl, rows, gw, gw_create) ==
    IF migration_table_exists(tbl, gw) = Err THEN [ret |-> Err, tbl |-> tbl, rows |-> rows]
    ELSE IF ~migration_table_exists(tbl, gw).flag
    THEN IF gw_create THEN [ret |-> OkBool(TRUE), tbl |-> TRUE, rows |-> <<>>]
         ELSE [ret |-> Err, tbl |-> tbl, rows |-> rows]
    ELSE [ret |-> OkBool(FALSE), tbl |-> tbl, rows |-> rows]

\* select_migrations: the rows of `select tag from __migrant_migrations`, as returned
select_migrations(tbl, queried, gw) == IF gw /\ tbl THEN OkRows(queried) ELSE Err

\* insert_migration_tag: the column is unique, a second insert of a tag is an error
insert_migration_tag(tbl, rows, tag, gw) ==
    IF gw /\ tbl /\ ~unique_violation(rows, tag)
    THEN [ret |-> OkUnit, rows |-> InsertRows(rows, tag)]
    ELSE [ret |-> Err, rows |-> rows]

\* mutant: the delete statement has no where clause
remove_migration_tag_all(tbl, rows, tag, gw) ==
    IF gw /\ tbl THEN [ret |-> OkUnit, rows |-> <<>>] ELSE [ret |-> Err, rows |-> rows]

\* remove_migration_tag: delete ... where tag = tag
remove_migration_tag(tbl, rows, tag, gw) ==
    IF gw /\ tbl
    THEN [ret |-> OkUnit, rows |-> DeleteRows(rows, tag)]
    ELSE [ret |-> Err, rows |-> rows]

\* mutant: a missing table is read as an empty ledger
Config_load_lenient(tbl, rows) ==
    IF \A i \in 1..Len(rows) : StampParses(rows[i]) THEN "Ok" ELSE "Panic"

\* Config::load / load_applied: bail with Migration when the table is missing, panic
\* on a row whose stamp does not parse
Config_load(tbl, rows) ==
    IF ~tbl THEN "Migration"
    ELSE IF \A i \in 1..Len(rows) : StampParses(rows[i]) THEN "Ok" ELSE "Panic"

\* ----------------------------------- migration units (migration.rs)
\* mutant: a unit without the script fails its apply_up / apply_down
apply_required(has_cap, started, script_ok) ==
    IF has_cap THEN [invoked |-> TRUE, ok |-> started /\ script_ok]
    ELSE [invoked |-> FALSE, ok |-> FALSE]

\* Migratable::apply_up / apply_down of a FileMigration, EmbeddedMigration or
\* FnMigration: run_migration (or the callback) when up / down is Some, else print
\* "(empty)" and return Ok
apply_unit(has_cap, started, script_ok) ==
    IF has_cap THEN [invoked |-> TRUE, ok |-> started /\ script_ok]
    ELSE [invoked |-> FALSE, ok |-> TRUE]

Init ==
    /\ mig_dir \in Sources
    /\ driver \in Drivers
    /\ table_exists = FALSE
    /\ db = <<>>
    /\ effects = {}
    /\ pc = "idle"
    /\ applied = <<>>
    /\ direction = "Up" /\ force = FALSE /\ fake = FALSE /\ all = FALSE
    /\ depth = 0
    /\ next = None
    /\ ran = "pending"
    /\ result = "none"
    /\ failed_at = "none"
    /\ start = <<>>
    /\ execLog = <<>>
    /\ recLog = <<>>
    /\ prev = NoRun
    /\ clean = TRUE
    /\ files = [t \in mig_dir |-> {"up", "down"}]
    /\ cfg = NewConfig(TRUE)
    /\ saved = <<>>
    /\ c_op = "none" /\ c_arg = <<>> /\ c_result = "none"
    /\ c_prev = NewConfig(TRUE)
    /\ registered = NoList
    /\ listing = <<>>
    /\ gw_op = "none" /\ gw_arg = None /\ gw_ret = NoRet /\ gw_live = {}

\* --------------------------------------------------------------- actions
\* Config::setup: create the tracking table if it is missing
Setup ==
    /\ pc = "idle"
    /\ ~table_exists
    /\ table_exists' = TRUE
    /\ UNCHANGED <<cfgvars, listing, gwvars>>
    /\ UNCHANGED <<mig_dir, files, driver, db, effects, pc, applied, direction, force, fake, all, depth,
                   next, ran, result, failed_at, start, execLog, recLog, prev, clean>>

\* Config::load returns the Migration error of a missing table: there is no Config
\* to make a Migrator from, and no apply starts
LoadFails ==
    /\ pc = "idle"
    /\ Config_load(table_exists, db) = "Migration"
    /\ result' = "Migration"
    /\ failed_at' = "load"
    /\ UNCHANGED <<cfgvars, listing, gwvars>>
    /\ UNCHANGED <<mig_dir, files, driver, table_exists, db, effects, pc, applied, direction, force,
                   fake, all, depth, next, ran, start, execLog, recLog, prev, clean>>

\* Config::load, then Migrator::with_config(&config)...apply()
Apply ==
    /\ pc \in {"idle", "done"}
    /\ Config_load(table_exists, db) # "Migration"
    /\ \E d \in Directions, fo \in BOOLEAN, fa \in BOOLEAN, al \in BOOLEAN :
        /\ direction' = d /\ force' = fo /\ fake' = fa /\ all' = al
    /\ applied' = load_applied(db)
    /\ start' = load_applied(db)
    /\ clean' = (Range(db) = effects)
    /\ prev' = IF pc = "done" THEN Summary ELSE prev
    /\ IF Config_load(table_exists, db) = "Ok"
       THEN pc' = "resolve" /\ result' = "none" /\ failed_at' = "none"
       ELSE pc' = "done" /\ result' = Config_load(table_exists, db) /\ failed_at' = "load"
    /\ depth' = 0
    /\ next' = None
    /\ ran' = "pending"
    /\ execLog' = <<>>
    /\ recLog' = <<>>
    /\ UNCHANGED <<cfgvars, listing, gwvars>>
    /\ UNCHANGED <<mig_dir, files, driver, table_exists, db, effects>>

\* apply_migration: next_available; None bails with MigrationComplete
Resolve ==
    /\ pc = "resolve"
    /\ \E order \in Orders(mig_dir) :
        LET n == next_available(direction,
                                MigrationDirs(search_for_migrations(order), files), applied) IN
        /\ next' = n
        /\ IF n = None
           THEN /\ pc' = "done"
                /\ result' = CompleteResult(depth)
           ELSE /\ pc' = "execute"
                /\ UNCHANGED result
    /\ ran' = "pending"
    /\ UNCHANGED <<cfgvars, listing, gwvars>>
    /\ UNCHANGED <<mig_dir, files, driver, table_exists, db, effects, applied, direction, force, fake, all,
                   depth, failed_at, start, execLog, recLog, prev, clean>>

\* the execute step of a frame: nothing runs when skip is set, else the runner runs
ExecuteStep(skip) ==
    /\ pc = "execute"
    /\ IF skip
       THEN /\ ran' = "fake"
            /\ pc' = "record"
            /\ UNCHANGED <<effects, execLog, result, failed_at>>
       ELSE \E started \in BOOLEAN, script_ok \in BOOLEAN :
            LET ok == runner(driver, started, script_ok) IN
            /\ script_ok => HasScript(direction, next, files)
            /\ execLog' = Append(execLog, <<direction, next, ok>>)
            /\ effects' = IF ~(started /\ script_ok) THEN effects
                          ELSE IF direction = "Up" THEN effects \cup {next}
                          ELSE effects \ {next}
            /\ ran' = RunOutcome(ok, force)
            /\ IF RunOutcome(ok, force) = "bail"
               THEN /\ pc' = "done"
                    /\ result' = "Migration"
                    /\ failed_at' = "execute"
               ELSE /\ pc' = "record"
                    /\ UNCHANGED <<result, failed_at>>
    /\ UNCHANGED <<cfgvars, listing, gwvars>>
    /\ UNCHANGED <<mig_dir, files, driver, table_exists, db, applied, direction, force, fake, all, depth,
                   next, start, recLog, prev, clean>>

\* mutant: the frame goes to the record step without the execute step
ExecuteSkipped ==
    /\ pc = "execute"
    /\ pc' = "record"
    /\ UNCHANGED <<cfgvars, listing, gwvars>>
    /\ UNCHANGED <<mig_dir, files, driver, table_exists, db, effects, applied, direction, force, fake, all,
                   depth, next, ran, result, failed_at, start, execLog, recLog, prev, clean>>

\* mutant: the runner runs although fake is set
ExecuteIgnoringFake == ExecuteStep(FALSE)

\* apply_migration: the runner, unless fake
Execute == ExecuteStep(fake)

\* apply_migration: insert_migration_tag / delete_migration_tag of the unit's tag
Record ==
    /\ pc = "record"
    /\ \E gw \in BOOLEAN :
        IF gw /\ (direction = "Down" \/ ~unique_violation(db, next))
        THEN /\ db' = IF direction = "Up" THEN InsertRows(db, next) ELSE DeleteRows(db, next)
             /\ recLog' = Append(recLog, <<direction, next>>)
             /\ pc' = "reload"
             /\ UNCHANGED <<result, failed_at>>
        ELSE /\ pc' = "done"
             /\ result' = "Migration"
             /\ failed_at' = "record"
             /\ UNCHANGED <<db, recLog>>
    /\ UNCHANGED <<cfgvars, listing, gwvars>>
    /\ UNCHANGED <<mig_dir, files, driver, table_exists, effects, applied, direction, force, fake, all,
                   depth, next, ran, start, execLog, prev, clean>>

\* apply_migration: config.reload(), then the recursive call of an `all` run
Reload ==
    /\ pc = "reload"
    /\ \E gw \in BOOLEAN :
        IF gw /\ table_exists /\ \E i \in 1..Len(db) : ~StampParses(db[i])
        THEN /\ pc' = "done"
             /\ result' = "Panic"
             /\ failed_at' = "reload"
             /\ UNCHANGED <<applied, depth>>
        ELSE IF gw /\ table_exists
        THEN /\ applied' = reload(applied, db)
             /\ IF all
                THEN /\ pc' = "resolve"
                     /\ depth' = depth + 1
                     /\ UNCHANGED <<result, failed_at>>
                ELSE /\ pc' = "done"
                     /\ result' = "Ok"
                     /\ UNCHANGED <<depth, failed_at>>
        ELSE /\ pc' = "done"
             /\ result' = "Migration"
             /\ failed_at' = "reload"
             /\ UNCHANGED <<applied, depth>>
    /\ UNCHANGED <<cfgvars, listing, gwvars>>
    /\ UNCHANGED <<mig_dir, files, driver, table_exists, db, effects, direction, force, fake, all, next,
                   ran, start, execLog, recLog, prev, clean>>

Next == Setup \/ LoadFails \/ Apply \/ Resolve \/ Execute \/ Record \/ Reload

Spec == Init /\ [][Next]_vars

\* ---------------------------------- the engine on a hand-edited source
FileSets == {{"up", "down"}, {"up"}, {"down"}}

\* the table exists and holds tags of earlier runs; directories were since removed or
\* added, and at most one directory lacks one of its two scripts
InitDrift ==
    /\ mig_dir \in {S \in SUBSET Tags : Cardinality(S) <= MaxDrift}
    /\ files \in {f \in [mig_dir -> FileSets] :
                    Cardinality({t \in mig_dir : f[t] # {"up", "down"}}) <= 1}
    /\ driver \in Drivers
    /\ table_exists = TRUE
    /\ db \in UNION {Orders(S) : S \in {L \in SUBSET Tags : Cardinality(L) <= MaxLedger}}
    /\ effects = Range(db)
    /\ pc = "idle"
    /\ applied = <<>>
    /\ direction = "Up" /\ force = FALSE /\ fake = FALSE /\ all = FALSE
    /\ depth = 0 /\ next = None /\ ran = "pending" /\ result = "none" /\ failed_at = "none"
    /\ start = <<>> /\ execLog = <<>> /\ recLog = <<>> /\ prev = NoRun /\ clean = TRUE
    /\ cfg = NewConfig(TRUE) /\ c_prev = NewConfig(TRUE)
    /\ saved = <<>>
    /\ c_op = "none" /\ c_arg = <<>> /\ c_result = "none"
    /\ registered = NoList
    /\ listing = <<>>
    /\ gw_op = "none" /\ gw_arg = None /\ gw_ret = NoRet /\ gw_live = {}

NextDrift == Apply \/ Resolve \/ Execute \/ Record \/ Reload

SpecDrift == InitDrift /\ [][NextDrift]_vars

\* ------------------------------------------- the engine run to its end
\* a set-up database with an empty table and a well-formed source
InitBatch ==
    /\ mig_dir \in {S \in SUBSET Tags : Cardinality(S) <= MaxDrift}
    /\ files = [t \in mig_dir |-> {"up", "down"}]
    /\ driver \in Drivers
    /\ table_exists = TRUE
    /\ db = <<>> /\ effects = {}
    /\ pc = "idle"
    /\ applied = <<>>
    /\ direction = "Up" /\ force = FALSE /\ fake = FALSE /\ all = FALSE
    /\ depth = 0 /\ next = None /\ ran = "pending" /\ result = "none" /\ failed_at = "none"
    /\ start = <<>> /\ execLog = <<>> /\ recLog = <<>> /\ prev = NoRun /\ clean = TRUE
    /\ cfg = NewConfig(TRUE) /\ c_prev = NewConfig(TRUE)
    /\ saved = <<>>
    /\ c_op = "none" /\ c_arg = <<>> /\ c_result = "none"
    /\ registered = NoList
    /\ listing = <<>>
    /\ gw_op = "none" /\ gw_arg = None /\ gw_ret = NoRet /\ gw_live = {}

NextBatch == Apply \/ Resolve \/ Execute \/ Record \/ Reload

\* the invoker is one thread of blocking calls: a started apply takes its next step
SpecBatch == InitBatch /\ [][NextBatch]_vars /\ WF_vars(Resolve \/ Execute \/ Record \/ Reload)

\* ------------------------- the engine with stale snapshots and other writers
\* Migrator::with_config(&config).apply() once more on the Config the previous apply
\* was given: with_config clones it, so it still holds the ledger read before
ApplyAgain ==
    /\ pc = "done"
    /\ \E d \in Directions, fo \in BOOLEAN, fa \in BOOLEAN, al \in BOOLEAN :
        /\ direction' = d /\ force' = fo /\ fake' = fa /\ all' = al
    /\ applied' = start
    /\ clean' = (Range(db) = effects)
    /\ prev' = Summary
    /\ pc' = "resolve" /\ result' = "none" /\ failed_at' = "none"
    /\ depth' = 0
    /\ next' = None
    /\ ran' = "pending"
    /\ execLog' = <<>>
    /\ recLog' = <<>>
    /\ UNCHANGED <<cfgvars, listing, gwvars>>
    /\ UNCHANGED <<mig_dir, files, driver, table_exists, db, effects, start>>

\* the record step of another invocation against the same database, between two
\* steps of this one: nothing locks the table (followed until this invocation has
\* recorded its first unit)
OtherRecord ==
    /\ pc \in {"resolve", "execute", "record"}
    /\ recLog = <<>>
    /\ \E t \in mig_dir :
        db' = IF unique_violation(db, t) THEN DeleteRows(db, t) ELSE InsertRows(db, t)
    /\ UNCHANGED <<cfgvars, listing, gwvars>>
    /\ UNCHANGED <<mig_dir, files, driver, table_exists, effects, pc, applied, direction, force,
                   fake, all, depth, next, ran, result, failed_at, start, execLog, recLog, prev,
                   clean>>

NextShared == Apply \/ ApplyAgain \/ OtherRecord \/ Resolve \/ Execute \/ Record \/ Reload

\* a set-up database with an empty table, a well-formed source, the native driver
InitShared == InitBatch /\ driver = "native"

SpecShared == InitShared /\ [][NextShared]_vars

\* ------------------------------------------------------ the list command
\* mutant: the first Len(app) lines are marked
list_by_count(available, app) ==
    [i \in 1..Len(available) |-> <<available[i], i <= Len(app)>>]

\* list: one line per discovered Migration, marked when config.applied contains its tag
list(available, app) ==
    [i \in 1..Len(available) |-> <<available[i], Contains(app, available[i])>>]

\* any source with both scripts in every directory, any ledger
InitList ==
    /\ mig_dir \in Sources
    /\ files = [t \in mig_dir |-> {"up", "down"}]
    /\ driver \in Drivers
    /\ table_exists = TRUE
    /\ db \in UNION {Orders(S) : S \in Sources}
    /\ effects = Range(db)
    /\ pc = "idle"
    /\ applied = <<>>
    /\ direction = "Up" /\ force = FALSE /\ fake = FALSE /\ all = FALSE
    /\ depth = 0 /\ next = None /\ ran = "pending" /\ result = "none" /\ failed_at = "none"
    /\ start = <<>> /\ execLog = <<>> /\ recLog = <<>> /\ prev = NoRun /\ clean = TRUE
    /\ cfg = NewConfig(TRUE) /\ c_prev = NewConfig(TRUE)
    /\ saved = <<>>
    /\ c_op = "none" /\ c_arg = <<>> /\ c_result = "none"
    /\ registered = NoList
    /\ listing = <<>>
    /\ gw_op = "none" /\ gw_arg = None /\ gw_ret = NoRet /\ gw_live = {}

\* the list subcommand: config.reload(), then migrant_lib::list(&config)
List ==
    /\ pc = "idle"
    /\ table_exists
    /\ \E order \in Orders(mig_dir) :
        listing' = list(MigrationDirs(search_for_migrations(order), files), load_applied(db))
    /\ UNCHANGED <<engvars, cfgvars, gwvars>>

NextList == List

SpecList == InitList /\ [][NextList]_vars

\* ------------------------------------------------ Config: specification
RegLists == UNION {[1..n -> RegTags] : n \in 0..MaxList}

\* the Config operations are called with no apply running
InitConfig ==
    /\ mig_dir = {} /\ files = <<>>
    /\ driver = "native"
    /\ table_exists \in BOOLEAN
    /\ db = <<>> /\ effects = {}
    /\ pc = "idle"
    /\ applied = <<>>
    /\ direction = "Up" /\ force = FALSE /\ fake = FALSE /\ all = FALSE
    /\ depth = 0 /\ next = None /\ ran = "pending" /\ result = "none" /\ failed_at = "none"
    /\ start = <<>> /\ execLog = <<>> /\ recLog = <<>> /\ prev = NoRun /\ clean = TRUE
    /\ \E has_path \in BOOLEAN : cfg = NewConfig(has_path) /\ c_prev = NewConfig(has_path)
    /\ saved = <<>>
    /\ c_op = "none" /\ c_arg = <<>> /\ c_result = "none"
    /\ registered = NoList
    /\ listing = <<>>
    /\ gw_op = "none" /\ gw_arg = None /\ gw_ret = NoRet /\ gw_live = {}

\* a row is written to __migrant_migrations (by an apply, or by anything else)
SaveTag ==
    /\ table_exists
    /\ Len(saved) < MaxRows
    /\ \E t \in SavedTags \ Range(saved) : saved' = Append(saved, t)
    /\ c_op' = "save" /\ c_arg' = <<>> /\ c_result' = "none"
    /\ c_prev' = cfg
    /\ UNCHANGED <<cfg, registered>>
    /\ UNCHANGED <<engvars, listing, gwvars>>

\* config.use_migrations(list)
UseMigrations ==
    /\ \E migs \in RegLists :
        LET r == use_migrations(cfg, migs) IN
        /\ c_arg' = migs
        /\ c_result' = r.result
        /\ cfg' = r.cfg
        /\ registered' = IF r.result = "Ok" THEN Some(migs) ELSE registered
    /\ c_op' = "use_migrations"
    /\ c_prev' = cfg
    /\ UNCHANGED saved
    /\ UNCHANGED <<engvars, listing, gwvars>>

\* let config = config.reload()?
ConfigReload ==
    /\ \E gw \in BOOLEAN :
        LET r == Config_reload(cfg, table_exists, saved, gw) IN
        /\ c_result' = r.result
        /\ cfg' = r.cfg
    /\ c_op' = "reload" /\ c_arg' = <<>>
    /\ c_prev' = cfg
    /\ UNCHANGED <<saved, registered>>
    /\ UNCHANGED <<engvars, listing, gwvars>>

NextConfig == SaveTag \/ UseMigrations \/ ConfigReload

SpecConfig == InitConfig /\ [][NextConfig]_vars

\* ----------------------------------------- drivers: specification
\* the driver functions called directly on a database without the table, as the
\* drivers' tests do
InitGateway ==
    /\ mig_dir = {} /\ files = <<>>
    /\ driver = "native"
    /\ table_exists = FALSE
    /\ db = <<>> /\ effects = {}
    /\ pc = "idle"
    /\ applied = <<>>
    /\ direction = "Up" /\ force = FALSE /\ fake = FALSE /\ all = FALSE
    /\ depth = 0 /\ next = None /\ ran = "pending" /\ result = "none" /\ failed_at = "none"
    /\ start = <<>> /\ execLog = <<>> /\ recLog = <<>> /\ prev = NoRun /\ clean = TRUE
    /\ cfg = NewConfig(TRUE) /\ c_prev = NewConfig(TRUE)
    /\ saved = <<>>
    /\ c_op = "none" /\ c_arg = <<>> /\ c_result = "none"
    /\ registered = NoList
    /\ listing = <<>>
    /\ gw_op = "none" /\ gw_arg = None /\ gw_ret = NoRet /\ gw_live = {}

MigrationTableExists ==
    /\ \E gw \in BOOLEAN : gw_ret' = migration_table_exists(table_exists, gw)
    /\ gw_op' = "migration_table_exists" /\ gw_arg' = None
    /\ UNCHANGED <<engvars, cfgvars, listing, gw_live>>

MigrationSetup ==
    /\ \E gw \in BOOLEAN, gw_create \in BOOLEAN :
        LET r == migration_setup(table_exists, db, gw, gw_create) IN
        /\ gw_ret' = r.ret
        /\ table_exists' = r.tbl
        /\ db' = r.rows
    /\ gw_op' = "migration_setup" /\ gw_arg' = None
    /\ UNCHANGED <<mig_dir, files, driver, effects, pc, applied, direction, force, fake, all,
                   depth, next, ran, result, failed_at, start, execLog, recLog, prev, clean>>
    /\ UNCHANGED <<cfgvars, listing, gw_live>>

\* the database returns the rows in an order of its choosing
SelectMigrations ==
    /\ \E gw \in BOOLEAN, queried \in Orders(Range(db)) :
        gw_ret' = select_migrations(table_exists, queried, gw)
    /\ gw_op' = "select_migrations" /\ gw_arg' = None
    /\ UNCHANGED <<engvars, cfgvars, listing, gw_live>>

InsertMigrationTag ==
    /\ \E gw \in BOOLEAN, tag \in Tags :
        LET r == insert_migration_tag(table_exists, db, tag, gw) IN
        /\ gw_ret' = r.ret
        /\ db' = r.rows
        /\ gw_arg' = tag
        /\ gw_live' = IF r.ret = OkUnit THEN gw_live \cup {tag} ELSE gw_live
    /\ gw_op' = "insert_migration_tag"
    /\ UNCHANGED <<mig_dir, files, driver, table_exists, effects, pc, applied, direction, force,
                   fake, all, depth, next, ran, result, failed_at, start, execLog, recLog, prev,
                   clean>>
    /\ UNCHANGED <<cfgvars, listing>>

RemoveMigrationTag ==
    /\ \E gw \in BOOLEAN, tag \in Tags :
        LET r == remove_migration_tag(table_exists, db, tag, gw) IN
        /\ gw_ret' = r.ret
        /\ db' = r.rows
        /\ gw_arg' = tag
        /\ gw_live' = IF r.ret = OkUnit THEN gw_live \ {tag} ELSE gw_live
    /\ gw_op' = "remove_migration_tag"
    /\ UNCHANGED <<mig_dir, files, driver, table_exists, effects, pc, applied, direction, force,
                   fake, all, depth, next, ran, result, failed_at, start, execLog, recLog, prev,
                   clean>>
    /\ UNCHANGED <<cfgvars, listing>>

NextGateway ==
    \/ MigrationTableExists \/ MigrationSetup \/ SelectMigrations
    \/ InsertMigrationTag \/ RemoveMigrationTag

SpecGateway == InitGateway /\ [][NextGateway]_vars

\* ------------------------------------ the engine on migration units
UnitCaps == SUBSET {"up", "down"}

\* a source of units with an up and a down script, except at most one unit that has
\* only one of them or neither, and an empty table
InitUnits ==
    /\ mig_dir \in {S \in SUBSET Tags : S # {} /\ Cardinality(S) <= MaxDrift}
    /\ files \in {f \in [mig_dir -> UnitCaps] :
                    Cardinality({t \in mig_dir : f[t] # {"up", "down"}}) <= 1}
    /\ driver = "native"
    /\ table_exists = TRUE
    /\ db = <<>> /\ effects = {}
    /\ pc = "idle"
    /\ applied = <<>>
    /\ direction = "Up" /\ force = FALSE /\ fake = FALSE /\ all = FALSE
    /\ depth = 0 /\ next = None /\ ran = "pending" /\ result = "none" /\ failed_at = "none"
    /\ start = <<>> /\ execLog = <<>> /\ recLog = <<>> /\ prev = NoRun /\ clean = TRUE
    /\ cfg = NewConfig(TRUE) /\ c_prev = NewConfig(TRUE)
    /\ saved = <<>>
    /\ c_op = "none" /\ c_arg = <<>> /\ c_result = "none"
    /\ registered = NoList
    /\ listing = <<>>
    /\ gw_op = "none" /\ gw_arg = None /\ gw_ret = NoRet /\ gw_live = {}

\* Resolve: the first unit in order whose tag is not applied (Up), the unit of the
\* last applied tag (Down), MigrationNotFound when the source has no such unit
UnitResolve ==
    /\ pc = "resolve"
    /\ \E order \in Orders(mig_dir) :
        LET n == next_available(direction, search_for_migrations(order), applied) IN
        /\ next' = n
        /\ IF n = None
           THEN pc' = "done" /\ result' = CompleteResult(depth) /\ UNCHANGED failed_at
           ELSE IF n \notin mig_dir
           THEN pc' = "done" /\ result' = "MigrationNotFound" /\ failed_at' = "resolve"
           ELSE pc' = "execute" /\ UNCHANGED <<result, failed_at>>
    /\ ran' = "pending"
    /\ UNCHANGED <<cfgvars, listing, gwvars>>
    /\ UNCHANGED <<mig_dir, files, driver, table_exists, db, effects, applied, direction, force,
                   fake, all, depth, start, execLog, recLog, prev, clean>>

\* Execute: unless fake, run the unit's up / down capability; an error ends the step
\* unless force
UnitExecute ==
    /\ pc = "execute"
    /\ IF fake
       THEN /\ ran' = "fake"
            /\ pc' = "record"
            /\ UNCHANGED <<effects, execLog, result, failed_at>>
       ELSE \E started \in BOOLEAN, script_ok \in BOOLEAN :
            LET r == apply_unit(HasScript(direction, next, files), started, script_ok) IN
            /\ execLog' = IF r.invoked THEN Append(execLog, <<direction, next, r.ok>>)
                          ELSE execLog
            /\ effects' = IF ~(r.invoked /\ r.ok) THEN effects
                          ELSE IF direction = "Up" THEN effects \cup {next}
                          ELSE effects \ {next}
            /\ ran' = RunOutcome(r.ok, force)
            /\ IF RunOutcome(r.ok, force) = "bail"
               THEN /\ pc' = "done"
                    /\ result' = "Migration"
                    /\ failed_at' = "execute"
               ELSE /\ pc' = "record"
                    /\ UNCHANGED <<result, failed_at>>
    /\ UNCHANGED <<cfgvars, listing, gwvars>>
    /\ UNCHANGED <<mig_dir, files, driver, table_exists, db, applied, direction, force, fake, all,
                   depth, next, start, recLog, prev, clean>>

NextUnits == Apply \/ UnitResolve \/ UnitExecute \/ Record \/ Reload

SpecUnits == InitUnits /\ [][NextUnits]_vars

\* ------------------------------------------------- notions of the claims
\* no two migration directories share a timestamp
DistinctStamps == \A t, u \in mig_dir : Stamp(t) = Stamp(u) => t = u

\* the directories in strictly increasing stamp order (when DistinctStamps)
Ascending(S) ==
    CHOOSE s \in Orders(S) : \A i, j \in 1..Len(s) : i < j => Stamp(s[i]) < Stamp(s[j])

\* the tags of a log, in order
TagsOf(log) == [i \in 1..Len(log) |-> log[i][2]]

LastExecFailed == execLog # <<>> /\ ~execLog[Len(execLog)][3]

\* the ledger holds the tag exactly as the direction asks
Recorded(tag) == IF direction = "Up" THEN Contains(db, tag) ELSE ~Contains(db, tag)

\* the units left in the direction for an applied list
Remaining(dir, app) == IF dir = "Up" THEN mig_dir \ Range(app) ELSE Range(app)

\* ------------------------------------------------------------------- C1
\* C1: with distinct stamps the ledger rows are always a prefix of the directories in
\* strictly increasing stamp order (every Up step inserts the smallest-stamped unit
\* not yet applied, the first one on an empty ledger being the smallest of all), and
\* an apply-all Up from an empty ledger that returns Ok has recorded, and unless fake
\* run, each of the N units exactly once in that order.
C1_UpOrder ==
    DistinctStamps =>
        /\ \E k \in 0..Cardinality(mig_dir) : db = SubSeq(Ascending(mig_dir), 1, k)
        /\ (pc \in {"execute", "record"} /\ direction = "Up" /\ applied = <<>>)
               => next = Ascending(mig_dir)[1]
        /\ (pc = "done" /\ direction = "Up" /\ all /\ start = <<>> /\ result = "Ok")
               => /\ TagsOf(recLog) = Ascending(mig_dir)
                  /\ db = Ascending(mig_dir)
                  /\ ~fake => TagsOf(execLog) = Ascending(mig_dir)

C1_Witness ==
    /\ DistinctStamps /\ Cardinality(mig_dir) = 3
    /\ pc = "done" /\ direction = "Up" /\ all /\ start = <<>> /\ result = "Ok"
    /\ ~fake /\ Len(execLog) = 3 /\ Len(db) = 3

\* ------------------------------------------------------------------- C2
\* C2: when the runner fails in a single-step apply, without force the apply returns
\* a Migration error from the execute step with no ledger mutation, and with force it
\* goes on to the record step: unless the insert/delete itself fails, the tag is
\* inserted (Up) or removed (Down).
C2_Force ==
    /\ (pc \in {"record", "reload"} /\ LastExecFailed) => force
    /\ (pc = "done" /\ ~all /\ LastExecFailed) =>
          IF force
          THEN /\ failed_at # "execute"
               /\ failed_at # "record" => (recLog = <<<<direction, next>>>> /\ Recorded(next))
               /\ failed_at = "none" => result = "Ok"
          ELSE /\ result = "Migration" /\ failed_at = "execute"
               /\ recLog = <<>>
               /\ load_applied(db) = start

C2_Witness ==
    /\ pc = "done" /\ ~all /\ force /\ LastExecFailed /\ result = "Ok"
    /\ direction = "Up" /\ Contains(db, next) /\ next \notin effects

\* ------------------------------------------------------------------- C3
\* C3: an apply with fake set never calls the runner, whatever force is, and a
\* single-step fake apply that resolved a unit still goes through the record step:
\* unless the insert/delete itself fails, the tag is inserted (Up) or removed (Down).
C3_Fake ==
    /\ (pc # "idle" /\ fake) => execLog = <<>>
    /\ (pc = "done" /\ ~all /\ fake /\ next # None) =>
          /\ failed_at # "execute"
          /\ failed_at # "record" => (recLog = <<<<direction, next>>>> /\ Recorded(next))
          /\ failed_at = "none" => result = "Ok"

C3_Witness ==
    /\ pc = "done" /\ ~all /\ fake /\ force /\ direction = "Down" /\ result = "Ok"
    /\ next # None /\ ~Contains(db, next) /\ next \in effects /\ execLog = <<>>

\* ------------------------------------------------------------------- C4
\* C4: when an apply-all Up from an empty ledger has returned Ok and the apply-all
\* Down invoked next (on the reloaded Config) returns Ok, the ledger is empty and the
\* Down record steps are the Up record steps in reverse order.
C4_Inverse ==
    (pc = "done" /\ direction = "Down" /\ all /\ result = "Ok" /\ prev.kind = "up_all_ok")
        => /\ db = <<>>
           /\ TagsOf(recLog) = Reverse(TagsOf(prev.recLog))
           /\ Range(TagsOf(prev.recLog)) = mig_dir

C4_Witness ==
    /\ pc = "done" /\ direction = "Down" /\ all /\ result = "Ok" /\ prev.kind = "up_all_ok"
    /\ ~force /\ ~fake /\ Len(recLog) = 3 /\ Len(execLog) = 3 /\ effects = {} /\ db = <<>>

\* ------------------------------------------------------------------- C5
\* C5: a single-step Up apply invoked with every directory's tag in the ledger returns
\* MigrationComplete with no runner call and no insert or delete, leaving the ledger
\* as it was, every time it is invoked.
C5_IdempotentCompletion ==
    (pc = "done" /\ direction = "Up" /\ ~all /\ mig_dir \subseteq Range(start))
        => /\ result = "MigrationComplete"
           /\ next = None
           /\ execLog = <<>> /\ recLog = <<>>
           /\ load_applied(db) = start

C5_Witness ==
    /\ pc = "done" /\ direction = "Up" /\ ~all /\ mig_dir \subseteq Range(start)
    /\ Cardinality(mig_dir) = 3 /\ result = "MigrationComplete" /\ prev.kind = "up_complete"

\* ------------------------------------------------------------------- C6
\* C6: an apply-all invoked with at least one unit left in the direction never returns
\* MigrationComplete, and when no call failed it returns Ok having recorded exactly
\* the units that were left, so that none is left.
C6_AllReturnsOk ==
    (pc = "done" /\ all /\ Remaining(direction, start) # {})
        => /\ result # "MigrationComplete"
           /\ failed_at = "none" =>
                 /\ result = "Ok"
                 /\ Remaining(direction, db) = {}
                 /\ Range(TagsOf(recLog)) = Remaining(direction, start)
                 /\ Len(recLog) = Cardinality(Remaining(direction, start))

C6_Witness ==
    /\ pc = "done" /\ all /\ direction = "Up" /\ Len(start) = 1 /\ result = "Ok"
    /\ Len(recLog) = 2 /\ Len(db) = 3 /\ depth = 2

\* ------------------------------------------------------------------- C7
\* C7: an apply, single-step or all, invoked with no unit left in the direction returns
\* MigrationComplete with nothing run and the ledger unchanged.
C7_NothingLeft ==
    (pc = "done" /\ Remaining(direction, start) = {})
        => /\ result = "MigrationComplete"
           /\ execLog = <<>> /\ recLog = <<>>
           /\ load_applied(db) = start

C7_Witness ==
    /\ pc = "done" /\ all /\ direction = "Down" /\ start = <<>> /\ mig_dir # {}
    /\ result = "MigrationComplete" /\ db = <<>>

\* ------------------------------------------------------------------- C8
\* C8: without force a failed runner call is the last call of the invocation, which
\* returns the Migration error; in an apply-all the failing unit is not recorded,
\* every unit run before it is, and those tags stay in (Up) or out of (Down) the ledger.
C8_StopAtFailure ==
    /\ ~force => \A i \in 1..Len(execLog) : ~execLog[i][3] =>
                     /\ i = Len(execLog)
                     /\ pc = "done" /\ failed_at = "execute" /\ result = "Migration"
    /\ (pc = "done" /\ all /\ failed_at = "execute")
          => /\ ~force /\ result = "Migration"
             /\ TagsOf(execLog) = TagsOf(recLog) \o <<next>>
             /\ ~Recorded(next)
             /\ Range(db) = IF direction = "Up"
                             THEN Range(start) \cup Range(TagsOf(recLog))
                             ELSE Range(start) \ Range(TagsOf(recLog))

C8_Witness ==
    /\ pc = "done" /\ all /\ failed_at = "execute" /\ direction = "Up"
    /\ Cardinality(mig_dir) = 3 /\ start = <<>> /\ Len(recLog) = 1 /\ Len(db) = 1

\* ------------------------------------------------------------------- C9
\* C9 as stated: without force and fake, whenever an apply that started from a ledger
\* agreeing with the effects has returned, whatever it returned, a tag is in the
\* ledger exactly when its up script has taken effect and was not reverted.
C9_LedgerMatchesEffects ==
    (pc = "done" /\ ~force /\ ~fake /\ clean) => Range(db) = effects

\* ------------------------------------------------------------------ C10
\* C10: a frame is at its record step only with the execute step of the same unit
\* behind it (the runner returned Ok, or failed under force, or was skipped under
\* fake), and the ledger changes only in such a record step, by that unit's tag.
C10_RecordAfterExecute ==
    /\ [](pc = "record" =>
            /\ ran \in {"ok", "forced", "fake"}
            /\ (ran = "fake") = fake
            /\ ran = "forced" => force
            /\ ran # "fake" => /\ execLog # <<>>
                               /\ execLog[Len(execLog)] = <<direction, next, ran = "ok">>)
    /\ [][db' # db =>
            /\ pc = "record" /\ ran \in {"ok", "forced", "fake"}
            /\ db' = IF direction = "Up" THEN Append(db, next) ELSE DeleteRows(db, next)
            /\ recLog' = Append(recLog, <<direction, next>>)]_vars

C10_Witness ==
    /\ pc = "reload" /\ ran = "forced" /\ direction = "Down" /\ ~Contains(db, next)
    /\ recLog # <<>> /\ LastExecFailed

\* ------------------------------------------------------------------ C11
\* the two dialects of a tag: <14 digits>_<name>, or <name>, name of [a-z0-9-]
IsName(s) == s # <<>> /\ \A i \in 1..Len(s) : s[i] \in NameChars

ConformsTo(dialect, tag) ==
    IF dialect = "Explicit" THEN IsName(tag)
    ELSE \E k \in 1..Len(tag) :
            /\ k = StampLen + 1 /\ tag[k] = "_"
            /\ Range(SubSeq(tag, 1, k - 1)) \subseteq Digits
            /\ IsName(SubSeq(tag, k + 1, Len(tag)))

HasDuplicate(migs) == \E i, j \in 1..Len(migs) : i # j /\ migs[i] = migs[j]

\* C11: a use_migrations call whose list holds one tag twice returns TagError and
\* changes neither the Config (its registered list, its mode) nor the ledger table.
C11_DuplicateTag ==
    [][(c_op' = "use_migrations" /\ HasDuplicate(c_arg'))
          => /\ c_result' = "TagError"
             /\ cfg' = cfg
             /\ is_explicit(cfg') = is_explicit(cfg)
             /\ registered' = registered
             /\ saved' = saved /\ db' = db /\ table_exists' = table_exists]_vars

C11_Witness ==
    /\ c_op = "use_migrations" /\ HasDuplicate(c_arg) /\ c_result = "TagError"
    /\ cfg.migrations = Some(<<T_name, T_name2>>) /\ cfg = c_prev

\* ------------------------------------------------------------------ C12
\* C12: a reload that reads a stored tag not conforming to the Config's dialect returns
\* the Migration error and no Config, and the applied list of a reload that returned
\* Ok holds exactly the stored tags, each conforming.
C12_ReloadValidates ==
    c_op = "reload" =>
        /\ (c_result # "Gateway" /\ table_exists
              /\ \E i \in 1..Len(saved) :
                    ~ConformsTo(IF c_prev.migrations.some THEN "Explicit" ELSE "Generated", saved[i]))
              => (c_result = "Migration" /\ cfg = c_prev)
        /\ c_result = "Ok" =>
              /\ Range(cfg.applied) = Range(saved) /\ Len(cfg.applied) = Len(saved)
              /\ \A i \in 1..Len(cfg.applied) :
                    ConformsTo(IF cfg.migrations.some THEN "Explicit" ELSE "Generated", cfg.applied[i])

C12_Witness ==
    /\ c_op = "reload" /\ c_result = "Migration" /\ table_exists
    /\ saved = <<T_initial, T_upper>> /\ ~cfg.migrations.some /\ cfg.applied = <<T_initial>>

\* ------------------------------------------------------------------ C13
\* C13: the Config always holds the list of the last successful use_migrations of its
\* lineage, reloads included, and a reload fails on a stored tag exactly when the tag
\* does not conform to Explicit if a list was registered, to Generated if none was.
C13_StickyDialect ==
    /\ cfg.migrations = registered
    /\ (c_op = "reload" /\ c_result # "Gateway" /\ table_exists)
          => ((c_result = "Migration")
                = (\E i \in 1..Len(saved) :
                      ~ConformsTo(IF registered.some THEN "Explicit" ELSE "Generated", saved[i])))

C13_Witness ==
    /\ c_op = "reload" /\ c_result = "Ok" /\ cfg.settings_path
    /\ registered = Some(<<T_name2, T_name>>) /\ saved = <<T_name, T_name2>>
    /\ c_prev.applied = <<T_name>> /\ cfg.applied = saved

\* ------------------------------------------------------------------ C14
\* C14: a Down apply started on a non-empty ledger whose last tag has no directory in
\* the source returns MigrationNotFound with nothing run and the ledger unchanged.
C14_DownNotFound ==
    (direction = "Down" /\ depth = 0 /\ pc \notin {"idle", "resolve"}
       /\ start # <<>> /\ start[Len(start)] \notin mig_dir)
        => /\ pc = "done" /\ result = "MigrationNotFound"
           /\ execLog = <<>> /\ recLog = <<>>
           /\ load_applied(db) = start

\* ------------------------------------------------------------------ C15
\* C15: an Up apply on a source with a directory that lacks up.sql or down.sql returns
\* MigrationNotFound from discovery: no unit is resolved, run or recorded.
C15_IncompleteDirRejected ==
    (direction = "Up" /\ depth = 0 /\ pc \notin {"idle", "resolve"}
       /\ \E t \in mig_dir : files[t] # {"up", "down"})
        => /\ pc = "done" /\ result = "MigrationNotFound"
           /\ execLog = <<>> /\ recLog = <<>>

\* ------------------------------------------------------------------ C16
\* C16: under force no apply returns the error of its own insert or delete of a tag.
C16_ForcedRecordFailure ==
    (pc = "done" /\ force) => failed_at # "record"

\* ------------------------------------------------------------------ C17
\* C17: whenever a frame resolves, the applied list it resolves against holds exactly
\* the rows of the table: each insert or delete was followed by a reload.
C17_ResolveSeesLedger ==
    /\ pc = "resolve" => (Range(applied) = Range(db) /\ Len(applied) = Len(db))
    /\ pc = "reload" => recLog # <<>>

C17_Witness ==
    /\ pc = "resolve" /\ depth = 2 /\ direction = "Down" /\ Len(db) = 1 /\ Len(start) = 3
    /\ applied = db

\* ------------------------------------------------------------------ C18
\* C18: a step that changes the table changes it by one tag: Up appends the resolved
\* tag, which was not there; Down removes the tag of greatest stamp, which was the
\* last of the applied list; every other row stays, in its place.
C18_OneTagPerStep ==
    [][db' # db =>
          IF direction = "Up"
          THEN ~Contains(db, next) /\ db' = Append(db, next)
          ELSE /\ Contains(db, next) /\ next = applied[Len(applied)]
               /\ \A i \in 1..Len(db) : Stamp(db[i]) <= Stamp(next)
               /\ Len(db') = Len(db) - 1
               /\ Range(db') = Range(db) \ {next}
               /\ \A i, j \in 1..Len(db') : i < j =>
                     \E k, l \in 1..Len(db) : k < l /\ db[k] = db'[i] /\ db[l] = db'[j]]_vars

C18_Witness ==
    /\ pc = "reload" /\ direction = "Down" /\ Len(db) = 2 /\ Len(applied) = 3
    /\ recLog = <<<<"Down", next>>>> /\ ~Contains(db, next)

\* ------------------------------------------------------------------ C19
\* `redo` without --all (main.rs): a single-step Down, and when it returned Ok a
\* single-step Up with the same --force, neither with --fake
RedoDone ==
    /\ pc = "done" /\ direction = "Up" /\ ~all /\ ~fake
    /\ prev.kind = "down_one_ok" /\ prev.force = force

\* the tag the Down half reverted
Reverted == TagsOf(prev.recLog)[1]

C20_List ==
    [][listing' # listing =>
          /\ Len(listing') = Cardinality(mig_dir)
          /\ {listing'[i][1] : i \in 1..Len(listing')} = mig_dir
          /\ \A i, j \in 1..Len(listing') : i < j => Stamp(listing'[i][1]) <= Stamp(listing'[j][1])
          /\ \A i \in 1..Len(listing') : listing'[i][2] = (listing'[i][1] \in Range(db))
          /\ UNCHANGED <<engvars, cfgvars>>]_vars

C20_Witness ==
    /\ Len(listing) = 3 /\ listing[1][2] = FALSE /\ listing[2][2] = TRUE /\ listing[3][2] = FALSE
    /\ Len(db) = 2 /\ Stamp(listing[1][1]) = Stamp(listing[2][1])

\* ------------------------------------------------------------------ C21
\* C21: migration_setup returns Ok(true) exactly when the table did not exist and
\* then creates it; whenever it returns Ok the table exists afterwards; and when the
\* table existed it returns Ok(false) and leaves the table and its rows unchanged.
C21_SetupIdempotent ==
    [][(gw_op' = "migration_setup" /\ gw_ret'.kind = "Ok")
       => /\ gw_ret'.flag = ~table_exists
          /\ table_exists'
          /\ migration_table_exists(table_exists', TRUE) = OkBool(TRUE)
          /\ table_exists => (db' = db /\ gw_ret' = OkBool(FALSE))]_vars

C21_Witness ==
    /\ gw_op = "migration_setup" /\ gw_ret = OkBool(FALSE) /\ table_exists /\ Len(db) = 2

\* ------------------------------------------------------------------ C22
\* C22: select_migrations returns each tag whose insert returned Ok and that no later
\* remove took away exactly once, and nothing else; none when all were removed.
C22_SelectLive ==
    (gw_op = "select_migrations" /\ gw_ret.kind = "Ok")
    => /\ Range(gw_ret.rows) = gw_live
       /\ Len(gw_ret.rows) = Cardinality(gw_live)

C22_Witness ==
    /\ gw_op = "select_migrations" /\ gw_ret.kind = "Ok"
    /\ Len(gw_ret.rows) = 2 /\ Cardinality(Range(db)) = 2
    /\ gw_ret.rows # db

\* ------------------------------------------------------------------ C23
\* C23: the execute step of a unit that has no script for the direction does not end
\* the apply, invokes no runner and changes nothing in the database, with or without
\* force; and when such a single step returns Ok the tag is in the ledger (Up) or out
\* of it (Down) and no runner was invoked.
C23_EmptyIsNoOp ==
    /\ [][(pc = "execute" /\ ~fake /\ ~HasScript(direction, next, files))
          => (pc' = "record" /\ ran' = "ok" /\ execLog' = execLog /\ effects' = effects)]_vars
    /\ []((pc = "done" /\ ~all /\ next # None /\ ~HasScript(direction, next, files))
          => (/\ failed_at # "execute"
              /\ execLog = <<>>
              /\ result = "Ok" => (Recorded(next) /\ recLog = <<<<direction, next>>>>)))

C23_Witness ==
    /\ pc = "done" /\ ~all /\ ~fake /\ ~force /\ direction = "Down" /\ result = "Ok"
    /\ files[next] = {"up"} /\ execLog = <<>> /\ recLog = <<<<"Down", next>>>>
    /\ ~Contains(db, next) /\ next \in effects

\* ------------------------------------------------------------------ C24
\* C24: a reload that returns Ok holds, without registered migrations, the stored
\* tags each once in non-decreasing order of their timestamps whatever the order of
\* the rows, and with registered migrations the stored tags in the order of the rows.
C24_ReloadOrder ==
    (c_op = "reload" /\ c_result = "Ok")
    => IF is_explicit(c_prev)
       THEN cfg.applied = saved
       ELSE /\ Len(cfg.applied) = Len(saved)
            /\ Range(cfg.applied) = Range(saved)
            /\ \A i, j \in 1..Len(cfg.applied) :
                i < j => DateLeq(StampPart(cfg.applied[i]), StampPart(cfg.applied[j]))

C24_Witness ==
    /\ c_op = "reload" /\ c_result = "Ok" /\ ~is_explicit(c_prev)
    /\ saved = <<T_second, T_initial>> /\ cfg.applied = <<T_initial, T_second>>

\* ------------------------------------------------------------------ C25
\* C25: while the table does not exist every load fails with a Migration error and
\* an empty ledger is never handed to an apply: no unit is resolved, nothing is
\* executed and nothing is recorded.
C25_NoTableNoApply ==
    ~table_exists
    => /\ pc = "idle"
       /\ result \in {"none", "Migration"}
       /\ result = "Migration" => failed_at = "load"
       /\ applied = <<>> /\ next = None /\ execLog = <<>> /\ recLog = <<>>
       /\ db = <<>> /\ effects = {}

C25_Witness ==
    /\ ~table_exists /\ pc = "idle" /\ result = "Migration" /\ failed_at = "load"
    /\ mig_dir # {}

\* ------------------------------------------------------------------ C26
\* C26: the unit a Down step resolves is a row of the table with the greatest
\* timestamp of all rows, whatever the order the rows were inserted in.
C26_DownRevertsLatestStamp ==
    (direction = "Down" /\ pc \in {"execute", "record"})
    => /\ Contains(db, next)
       /\ \A i \in 1..Len(db) : Stamp(db[i]) <= Stamp(next)

C26_Witness ==
    /\ direction = "Down" /\ pc = "execute" /\ Len(db) = 2
    /\ Stamp(db[2]) < Stamp(db[1]) /\ next = db[1]
    /\ recLog = <<>> /\ prev.kind = "other"

\* ------------------------------------------------------------------ C27
\* C27: the unit an Up step resolves is not in the ledger the step read and no
\* directory outside that ledger has an earlier timestamp, also when directories
\* with later timestamps are applied; and when an apply-all Up returns Ok the tags in
\* the table are those the invocation started from together with every directory.
C27_UpFillsGaps ==
    /\ (direction = "Up" /\ pc = "execute")
       => /\ ~Contains(applied, next)
          /\ \A t \in mig_dir : ~Contains(applied, t) => Stamp(next) <= Stamp(t)
    /\ (direction = "Up" /\ all /\ pc = "done" /\ result = "Ok")
       => Range(db) = Range(start) \cup mig_dir

C27_Witness ==
    /\ direction = "Up" /\ all /\ pc = "done" /\ result = "Ok"
    /\ start = <<<<2, "a">>>> /\ db = <<<<2, "a">>, <<1, "a">>>>
    /\ mig_dir = {<<1, "a">>, <<2, "a">>}

\* ------------------------------------------------------------------ C28
\* C28: every step of an apply-all that goes on to a next step has grown (Up) or
\* shrunk (Down) the reloaded ledger by one tag; an Up batch records at most as many
\* tags as there are directories and a Down batch at most as many as the ledger it
\* started from held; and every started apply returns, whatever force and fake are.
C28_AllTerminates ==
    /\ [][(pc = "reload" /\ pc' = "resolve")
          => IF direction = "Up"
             THEN Len(applied') = Len(applied) + 1 /\ Range(applied) \subseteq Range(applied')
             ELSE Len(applied') = Len(applied) - 1 /\ Range(applied') \subseteq Range(applied)]_vars
    /\ [](all => Len(recLog) <= IF direction = "Up" THEN Cardinality(mig_dir) ELSE Len(start))
    /\ (pc = "resolve") ~> (pc = "done")

C28_Witness ==
    /\ pc = "done" /\ all /\ force /\ ~fake /\ direction = "Down" /\ result = "Ok"
    /\ Len(start) = 2 /\ Len(recLog) = 2 /\ depth = 2 /\ db = <<>>
    /\ \A i \in 1..Len(execLog) : ~execLog[i][3]

\* ------------------------------------------------------------------ C29
\* C29: no tag is ever twice in the table; the unit an Up step resolves is not in the
\* ledger the step read; and the insert of a tag that is a row by then (the snapshot
\* was stale, or another invocation inserted it) fails the step with an error and
\* leaves the table as it is.
C29_NoDuplicateTag ==
    /\ [](\A i, j \in 1..Len(db) : db[i] = db[j] => i = j)
    /\ []((direction = "Up" /\ pc = "execute") => ~Contains(applied, next))
    /\ [][(pc = "record" /\ pc' # "record" /\ direction = "Up" /\ Contains(db, next))
          => (pc' = "done" /\ result' = "Migration" /\ failed_at' = "record" /\ db' = db)]_vars

C29_Witness ==
    /\ pc = "done" /\ direction = "Up" /\ force /\ failed_at = "record" /\ result = "Migration"
    /\ Contains(db, next) /\ ~Contains(applied, next) /\ recLog = <<>>

\* ------------------------------------------------------------------ C30
\* the runner is called on the up script of the resolved unit
UpRuns == pc = "execute" /\ direction = "Up" /\ Len(execLog') = Len(execLog) + 1

\* C30 as stated: the up script of a unit is never run while its tag is a row of the
\* table.
C30_NoUpWhileApplied == [][UpRuns => ~Contains(db, next)]_vars

\* C30 amended: the up script of a unit is never run while its tag is in the ledger
\* the step resolved against, and never while it is a row of the table when that
\* ledger still is what the table holds.
C30_NoUpWhileInSnapshot ==
    [][UpRuns => /\ ~Contains(applied, next)
                 /\ applied = load_applied(db) => ~Contains(db, next)]_vars

C30_Witness ==
    /\ pc = "record" /\ direction = "Up" /\ execLog = <<<<"Up", next, TRUE>>>>
    /\ applied = load_applied(db) /\ Len(db) = 1 /\ ~Contains(db, next)

====
